---- MODULE Spec2Model ----
(***************************************************************************)
(* A model of the RAG pipeline of larissacara/webScrapping:                *)
(*   src/rag_index.py   strip_html, simple_chunk, build_index, query_index *)
(*   src/json_to_pdf.py split_into_sentences, chunk_to_range,              *)
(*                      bullets_from_text, chunk_text_range                *)
(*                                                                         *)
(* Texts are sequences of one-character strings.  Positions are 0-based as *)
(* in Python; At and Slice translate to TLA+'s 1-based sequences.          *)
(*                                                                         *)
(* Three specifications share the module:                                  *)
(*   Spec       build_index and query_index over one index directory       *)
(*   SpecChunk  simple_chunk, one loop iteration per step                  *)
(*   SpecRange  chunk_text_range and bullets_from_text as functions        *)
(***************************************************************************)
EXTENDS Integers, Sequences, FiniteSets, TLC

(***************************************************************************)
(* Bounds of the model.                                                    *)
(***************************************************************************)
\* longest raw text handed to simple_chunk in SpecChunk
MaxLen == 7
\* largest max_chars tried in SpecChunk (5 is the least value at which a cut
\* on a sentence boundary can be accepted by line 69)
MaxMaxChars == 5
\* largest overlap tried in SpecChunk (covers overlap >= max_chars)
MaxOverlap == 2
\* longest text handed to chunk_text_range and bullets_from_text in SpecRange
MaxRangeLen == 6
\* largest max_chars / max_len tried in SpecRange
MaxRangeMax == 3
\* largest min_chars / min_len tried in SpecRange
MaxRangeMin == 3
\* simple_chunk's defaults max_chars = 900 and overlap = 150 (rag_index.py
\* line 56), scaled to the length of the field texts of the model's courses
ScaledMaxChars == 3
ScaledOverlap == 1
\* most courses in one corpus
MaxCourses == 2
\* most build_index runs into the directory
MaxBuilds == 2
\* largest top_k asked of query_index (0 is the least)
MaxTopK == 2
\* scaled stand-ins for the 900 of line 238 and the 400 and 900 of line 243
\* of json_to_pdf.py
ScaledBlockMax == 14
ScaledSubMin == 6
ScaledSubMax == 14
\* longest text given to simple_chunk in the runs checked for termination
MaxFairLen == 6
\* lines of one oqueVouAprender text
MaxLines == 5

(***************************************************************************)
(* Characters and Python's string primitives.                              *)
(***************************************************************************)
\* stands for U+00A0, the non-breaking space
NBSP == "~"

\* str.isspace / the regex class \s
IsSpace(c) == c \in {" ", "\n", NBSP}

Min(a, b) == IF a <= b THEN a ELSE b

Max(a, b) == IF a >= b THEN a ELSE b

\* text[i], 0-based
At(text, i) == text[i + 1]

\* text[a:b], 0-based, for 0 <= a and b <= len(text)
Slice(text, a, b) == IF b <= a THEN << >> ELSE SubSeq(text, a + 1, b)

RECURSIVE LeadingSpaces(_)
\* number of whitespace characters at the front of s
LeadingSpaces(s) ==
    IF s = << >> \/ ~IsSpace(Head(s)) THEN 0 ELSE 1 + LeadingSpaces(Tail(s))

RECURSIVE TrailingSpaces(_)
\* number of whitespace characters at the back of s
TrailingSpaces(s) ==
    IF s = << >> \/ ~IsSpace(s[Len(s)]) THEN 0
    ELSE 1 + TrailingSpaces(SubSeq(s, 1, Len(s) - 1))

\* str.strip()
Strip(s) ==
    LET l == LeadingSpaces(s)
    IN  IF l = Len(s) THEN << >> ELSE Slice(s, l, Len(s) - TrailingSpaces(s))

RECURSIVE CollapseRuns(_)
\* re.sub(r"\s+", " ", s): every maximal run of whitespace becomes one space
CollapseRuns(s) ==
    IF s = << >> THEN << >>
    ELSE IF IsSpace(Head(s))
         THEN <<" ">> \o CollapseRuns(SubSeq(s, LeadingSpaces(s) + 1, Len(s)))
         ELSE <<Head(s)>> \o CollapseRuns(Tail(s))

RECURSIVE FirstIndexOf(_, _, _)
\* text.find(c, from): the least i >= from with text[i] = c, or -1
FirstIndexOf(text, c, from) ==
    IF from >= Len(text) THEN -1
    ELSE IF At(text, from) = c THEN from
    ELSE FirstIndexOf(text, c, from + 1)

RECURSIVE RemoveTags(_)
\* _HTML_TAG_RE.sub("", s) for the pattern <[^>]+> : a "<", at least one
\* character that is not ">", then the first ">" that follows
RemoveTags(s) ==
    IF s = << >> THEN << >>
    ELSE IF Head(s) = "<"
         THEN LET close == FirstIndexOf(s, ">", 1)
              IN  IF close >= 2
                  THEN RemoveTags(Slice(s, close + 1, Len(s)))
                  ELSE <<"<">> \o RemoveTags(Tail(s))
         ELSE <<Head(s)>> \o RemoveTags(Tail(s))

\* value.replace(NBSP, " ")
ReplaceNbsp(s) == [i \in 1..Len(s) |-> IF s[i] = NBSP THEN " " ELSE s[i]]

\* A JSON value read with dict.get: the key is absent, null, or a string.
Absent == [k |-> "absent", s |-> << >>]

Null == [k |-> "null", s |-> << >>]

Str(s) == [k |-> "str", s |-> s]

\* course.get(key, ""): an absent key gives "", a null stays None
GetOrEmpty(v) == IF v.k = "absent" THEN Str(<< >>) ELSE v

\* strip_html(value)
strip_html(value) ==
    IF value.k # "str" \/ value.s = << >> THEN << >>
    ELSE Strip(CollapseRuns(ReplaceNbsp(RemoveTags(value.s))))

(***************************************************************************)
(* simple_chunk                                                            *)
(***************************************************************************)
RECURSIVE RFindDotSpace(_, _, _)
\* text.rfind(". ", start, end): the greatest i with start <= i, i + 2 <= end
\* and text[i:i+2] = ". ", or -1
RFindDotSpace(text, start, end) ==
    IF end - 2 < start THEN -1
    ELSE IF At(text, end - 2) = "." /\ At(text, end - 1) = " " THEN end - 2
    ELSE RFindDotSpace(text, start, end - 1)

\* lines 66-70: the cut of the window that starts at start
SimpleChunkCut(text, start, max_chars) ==
    LET end == Min(Len(text), start + max_chars)
        cut == RFindDotSpace(text, start, end)
    IN  IF cut = -1 \/ 2 * cut <= 2 * start + max_chars THEN end ELSE cut

\* The same line without the step of one character: the floor is start.
SimpleChunkNextStartStay(cut, start, overlap) == Max(cut - overlap, start)

\* The same line with the overlap applied one character late.
SimpleChunkNextStartSkip(cut, start, overlap) == Max(cut + 1 - overlap, start + 1)

\* line 74: the start of the next window
SimpleChunkNextStart(cut, start, overlap) == Max(cut - overlap, start + 1)

\* lines 71-73: the chunk of the window [start, cut), with the position in
\* text at which the stripped chunk begins; << >> when it strips to nothing
SimpleChunkEmit(text, start, cut) ==
    LET raw == Slice(text, start, cut)
        chunk == Strip(raw)
    IN  IF chunk = << >> THEN << >>
        ELSE <<[text |-> chunk, off |-> start + LeadingSpaces(raw)]>>

RECURSIVE SimpleChunkLoop(_, _, _, _)
\* lines 65-75: the chunks of the windows from start on
SimpleChunkLoop(text, start, max_chars, overlap) ==
    IF start >= Len(text) THEN << >>
    ELSE LET cut == SimpleChunkCut(text, start, max_chars)
         IN  SimpleChunkEmit(text, start, cut)
             \o SimpleChunkLoop(text, SimpleChunkNextStart(cut, start, overlap),
                                max_chars, overlap)

\* simple_chunk(text, max_chars, overlap): the list of chunk strings
simple_chunk(raw, max_chars, overlap) ==
    LET text == Strip(raw)
    IN  IF text = << >> THEN << >>
        ELSE IF Len(text) <= max_chars THEN <<text>>
        ELSE LET cs == SimpleChunkLoop(text, 0, max_chars, overlap)
             IN  [i \in 1..Len(cs) |-> cs[i].text]

(***************************************************************************)
(* json_to_pdf.py: sentences, bullets and character-range chunks.          *)
(***************************************************************************)
\* collapse_whitespace(text)
collapse_whitespace(text) == Strip(CollapseRuns(text))

\* whether the whitespace run at the front of s holds a line break
RunHasNewline(s) == \E i \in 1..LeadingSpaces(s) : s[i] = "\n"

RECURSIVE JoinLines(_)
\* re.sub(r"\s*\n\s*", " ", s): a maximal whitespace run that holds a line
\* break becomes one space, any other run is kept as it is
JoinLines(s) ==
    IF s = << >> THEN << >>
    ELSE IF IsSpace(Head(s))
         THEN LET n == LeadingSpaces(s)
              IN  (IF RunHasNewline(s) THEN <<" ">> ELSE SubSeq(s, 1, n))
                  \o JoinLines(SubSeq(s, n + 1, Len(s)))
         ELSE <<Head(s)>> \o JoinLines(Tail(s))

\* the class [\.!?]
IsSentenceEnd(c) == c \in {".", "!", "?"}

RECURSIVE SplitAfterPunct(_, _)
\* re.split(r"(?<=[\.!?])\s+", cur \o s) given that no split point lies in
\* cur: the text is cut at every maximal whitespace run that directly
\* follows a sentence end, and the run is dropped
SplitAfterPunct(cur, s) ==
    IF s = << >> THEN <<cur>>
    ELSE IF IsSpace(Head(s)) /\ cur # << >> /\ IsSentenceEnd(cur[Len(cur)])
         THEN <<cur>> \o SplitAfterPunct(<< >>, SubSeq(s, LeadingSpaces(s) + 1, Len(s)))
         ELSE SplitAfterPunct(Append(cur, Head(s)), Tail(s))

\* [p.strip() for p in parts if p and p.strip()]
StripAll(parts) ==
    LET kept == SelectSeq(parts, LAMBDA p : Strip(p) # << >>)
    IN  [i \in 1..Len(kept) |-> Strip(kept[i])]

\* split_into_sentences(text)
split_into_sentences(text) ==
    IF text = << >> THEN << >>
    ELSE StripAll(SplitAfterPunct(<< >>, Strip(JoinLines(text))))

RECURSIVE Words(_)
\* str.split(): the maximal runs of non-whitespace characters
Words(s) ==
    LET t == SubSeq(s, LeadingSpaces(s) + 1, Len(s))
    IN  IF t = << >> THEN << >>
        ELSE LET RECURSIVE WordLen(_)
                 WordLen(u) == IF u = << >> \/ IsSpace(Head(u)) THEN 0
                               ELSE 1 + WordLen(Tail(u))
                 n == WordLen(t)
             IN  <<SubSeq(t, 1, n)>> \o Words(SubSeq(t, n + 1, Len(t)))

RECURSIVE Join(_)
\* " ".join(parts)
Join(parts) ==
    IF parts = << >> THEN << >>
    ELSE IF Len(parts) = 1 THEN parts[1]
    ELSE parts[1] \o <<" ">> \o Join(Tail(parts))

RECURSIVE WrapWords(_, _, _)
\* chunk_to_range lines 72-83: greedy word wrap at max_len; current is the
\* list of words of the line being filled
WrapWords(words, current, max_len) ==
    IF words = << >>
    THEN IF current # << >> THEN <<Join(current)>> ELSE << >>
    ELSE LET w == Head(words)
             tentative == Strip(Join(Append(current, w)))
         IN  IF Len(tentative) <= max_len
             THEN WrapWords(Tail(words), Append(current, w), max_len)
             ELSE (IF current # << >> THEN <<Join(current)>> ELSE << >>)
                  \o WrapWords(Tail(words), <<w>>, max_len)

RECURSIVE MergeShort(_, _, _)
\* chunk_to_range lines 84-96: a piece shorter than min_len takes the piece
\* after it when the two fit in 2 * max_len
MergeShort(chunks, min_len, max_len) ==
    IF chunks = << >> THEN << >>
    ELSE LET cur == chunks[1]
         IN  IF Len(cur) < min_len /\ Len(chunks) >= 2
                /\ Len(cur \o <<" ">> \o chunks[2]) <= max_len * 2
             THEN <<cur \o <<" ">> \o chunks[2]>>
                  \o MergeShort(SubSeq(chunks, 3, Len(chunks)), min_len, max_len)
             ELSE <<cur>> \o MergeShort(Tail(chunks), min_len, max_len)

\* chunk_to_range(text, min_len, max_len)
chunk_to_range(text, min_len, max_len) ==
    MergeShort(WrapWords(Words(text), << >>, max_len), min_len, max_len)

\* f"- {piece}"
Bullet(piece) == <<"-", " ">> \o piece

\* [f"- {piece}" for piece in pieces]
BulletAll(pieces) == [i \in 1..Len(pieces) |-> Bullet(pieces[i])]

RECURSIVE BulletsLoopNoMerge(_, _, _, _)
\* The loop without the branch of lines 110-116: a short sentence is always
\* a bullet of its own.
BulletsLoopNoMerge(sentences, bullets, min_len, max_len) ==
    IF sentences = << >> THEN bullets
    ELSE LET sent == collapse_whitespace(Head(sentences))
             rest == Tail(sentences)
         IN  IF sent = << >> THEN BulletsLoopNoMerge(rest, bullets, min_len, max_len)
             ELSE IF Len(sent) > max_len
             THEN BulletsLoopNoMerge(rest,
                      bullets \o BulletAll(chunk_to_range(sent, min_len, max_len)),
                      min_len, max_len)
             ELSE BulletsLoopNoMerge(rest, Append(bullets, Bullet(sent)), min_len, max_len)

RECURSIVE BulletsLoop(_, _, _, _)
\* bullets_from_text lines 103-118: the loop over the sentences, bullets
\* being the list built so far
BulletsLoop(sentences, bullets, min_len, max_len) ==
    IF sentences = << >> THEN bullets
    ELSE LET sent == collapse_whitespace(Head(sentences))
             rest == Tail(sentences)
         IN  IF sent = << >> THEN BulletsLoop(rest, bullets, min_len, max_len)
             ELSE IF Len(sent) > max_len
             THEN BulletsLoop(rest,
                      bullets \o BulletAll(chunk_to_range(sent, min_len, max_len)),
                      min_len, max_len)
             ELSE IF Len(sent) < min_len /\ bullets # << >>
             THEN LET prev == Slice(bullets[Len(bullets)], 2, Len(bullets[Len(bullets)]))
                      combined == Strip(prev \o <<" ">> \o sent)
                  IN  IF Len(combined) <= max_len
                      THEN BulletsLoop(rest,
                               [bullets EXCEPT ![Len(bullets)] = Bullet(combined)],
                               min_len, max_len)
                      ELSE BulletsLoop(rest, Append(bullets, Bullet(sent)),
                                       min_len, max_len)
             ELSE BulletsLoop(rest, Append(bullets, Bullet(sent)), min_len, max_len)

\* bullets_from_text(text, min_len, max_len)
bullets_from_text(text, min_len, max_len) ==
    BulletsLoop(split_into_sentences(text), << >>, min_len, max_len)

RECURSIVE GroupSentences(_, _, _, _)
\* chunk_text_range lines 150-161: the loop over the sentences; returns the
\* closed chunks and the group left open.  current_len is the length of
\* " ".join(current), as the loop keeps it.
GroupSentences(sentences, chunks, current, max_chars) ==
    IF sentences = << >> THEN [chunks |-> chunks, current |-> current]
    ELSE LET s == Strip(Head(sentences))
             rest == Tail(sentences)
             current_len == Len(Join(current))
             add_len == Len(s) + (IF current # << >> THEN 1 ELSE 0)
         IN  IF s = << >> THEN GroupSentences(rest, chunks, current, max_chars)
             ELSE IF current # << >> /\ current_len + add_len > max_chars
             THEN GroupSentences(rest, Append(chunks, Join(current)), <<s>>, max_chars)
             ELSE GroupSentences(rest, chunks, Append(current, s), max_chars)

\* chunk_text_range lines 163-172: the open group is merged into the last
\* chunk when it is shorter than min_chars and the two fit in 2 * max_chars
CloseRemainder(chunks, current, min_chars, max_chars) ==
    IF current = << >> THEN chunks
    ELSE IF Len(Join(current)) < min_chars /\ chunks # << >>
    THEN LET merged == Strip(chunks[Len(chunks)] \o <<" ">> \o Join(current))
         IN  IF Len(merged) <= max_chars * 2
             THEN [chunks EXCEPT ![Len(chunks)] = merged]
             ELSE Append(chunks, Join(current))
    ELSE Append(chunks, Join(current))

RECURSIVE HardSplitLossy(_, _, _)
\* The hard split resuming one character after the end of each piece.
HardSplitLossy(c, start, max_chars) ==
    IF start >= Len(c) THEN << >>
    ELSE LET end == Min(Len(c), start + max_chars)
         IN  <<Strip(Slice(c, start, end))>> \o HardSplitLossy(c, end + 1, max_chars)

RECURSIVE HardSplit(_, _, _)
\* chunk_text_range lines 180-184: pieces of max_chars characters from start on
HardSplit(c, start, max_chars) ==
    IF start >= Len(c) THEN << >>
    ELSE LET end == Min(Len(c), start + max_chars)
         IN  <<Strip(Slice(c, start, end))>> \o HardSplit(c, end, max_chars)

\* The final pass without the hard split: every chunk is kept as it is.
FixChunksKeep(chunks, max_chars) == chunks

RECURSIVE FixChunks(_, _)
\* chunk_text_range lines 174-184: chunks longer than max_chars are split
FixChunks(chunks, max_chars) ==
    IF chunks = << >> THEN << >>
    ELSE (IF Len(Head(chunks)) <= max_chars THEN <<Head(chunks)>>
          ELSE HardSplit(Head(chunks), 0, max_chars))
         \o FixChunks(Tail(chunks), max_chars)

\* chunk_text_range(text, min_chars, max_chars)
chunk_text_range(text, min_chars, max_chars) ==
    LET g == GroupSentences(split_into_sentences(text), << >>, << >>, max_chars)
    IN  StripAll(FixChunks(CloseRemainder(g.chunks, g.current, min_chars, max_chars),
                           max_chars))

(***************************************************************************)
(* json_to_pdf.py: the semester-aware splitter of oqueVouAprender.         *)
(***************************************************************************)
\* stands for U+00BA, the masculine ordinal indicator of "1º semestre"
ORDINAL == "^"

\* stands for U+00EA, the e with circumflex of "Você"
ECIRC == "%"

UpperLetters ==
    <<"A", "B", "C", "D", "E", "F", "G", "H", "I", "J", "K", "L", "M",
      "N", "O", "P", "Q", "R", "S", "T", "U", "V", "W", "X", "Y", "Z">>

LowerLetters ==
    <<"a", "b", "c", "d", "e", "f", "g", "h", "i", "j", "k", "l", "m",
      "n", "o", "p", "q", "r", "s", "t", "u", "v", "w", "x", "y", "z">>

\* the regex class [A-Z]
IsUpper(c) == \E i \in 1..Len(UpperLetters) : UpperLetters[i] = c

\* the regex class \d
IsDigit(c) == c \in {"0", "1", "2", "3", "4", "5", "6", "7", "8", "9"}

\* the character as re.IGNORECASE compares it
ToLower(c) ==
    IF IsUpper(c) THEN LowerLetters[CHOOSE i \in 1..Len(UpperLetters) : UpperLetters[i] = c]
    ELSE c

\* str.startswith
StartsWith(s, prefix) == Len(s) >= Len(prefix) /\ SubSeq(s, 1, Len(prefix)) = prefix

RECURSIVE LeadingDigits(_)
\* number of digits at the front of s
LeadingDigits(s) ==
    IF s = << >> \/ ~IsDigit(Head(s)) THEN 0 ELSE 1 + LeadingDigits(Tail(s))

\* re.match(r"\d+º\s+semestre", line, re.IGNORECASE): digits, the ordinal
\* sign, whitespace, the word
MatchesSemester(line) ==
    LET d == LeadingDigits(line)
        after == SubSeq(line, d + 2, Len(line))
        w == LeadingSpaces(after)
        word == SubSeq(after, w + 1, Len(after))
    IN  /\ d >= 1
        /\ Len(line) >= d + 1 /\ line[d + 1] = ORDINAL
        /\ w >= 1
        /\ StartsWith([i \in 1..Len(word) |-> ToLower(word[i])],
                      <<"s", "e", "m", "e", "s", "t", "r", "e">>)

RECURSIVE SplitLines(_)
\* s.split("\n")
SplitLines(s) ==
    LET i == FirstIndexOf(s, "\n", 0)
    IN  IF i = -1 THEN <<s>>
        ELSE <<Slice(s, 0, i)>> \o SplitLines(Slice(s, i + 1, Len(s)))

RECURSIVE JoinNewline(_)
\* "\n".join(parts)
JoinNewline(parts) ==
    IF parts = << >> THEN << >>
    ELSE IF Len(parts) = 1 THEN parts[1]
    ELSE parts[1] \o <<"\n">> \o JoinNewline(Tail(parts))

\* number of line breaks in s
Newlines(s) == Len(SelectSeq(s, LAMBDA c : c = "\n"))

RECURSIVE SquashNewlineRuns(_, _)
\* re.sub of a pattern \n\s*\n (least == 2) or \n\s*\n\s*\n (least == 3) by
\* "\n\n": in a maximal whitespace run that holds at least that many line
\* breaks, what lies from the first line break to the last becomes two
\* line breaks
SquashNewlineRuns(s, least) ==
    IF s = << >> THEN << >>
    ELSE IF IsSpace(Head(s))
         THEN LET n == LeadingSpaces(s)
                  run == SubSeq(s, 1, n)
                  first == FirstIndexOf(run, "\n", 0)
                  last == CHOOSE j \in 0..n : /\ j = 0 \/ run[j] = "\n"
                                              /\ \A k \in (j + 1)..n : run[k] # "\n"
              IN  (IF Newlines(run) >= least
                   THEN Slice(run, 0, first) \o <<"\n", "\n">> \o Slice(run, last, n)
                   ELSE run)
                  \o SquashNewlineRuns(SubSeq(s, n + 1, Len(s)), least)
         ELSE <<Head(s)>> \o SquashNewlineRuns(Tail(s), least)

RECURSIVE CollapseBlanks(_)
\* re.sub(r" +", " ", s): every run of blanks becomes one blank
CollapseBlanks(s) ==
    IF s = << >> THEN << >>
    ELSE IF Head(s) = " " /\ Len(s) >= 2 /\ s[2] = " " THEN CollapseBlanks(Tail(s))
    ELSE <<Head(s)>> \o CollapseBlanks(Tail(s))

\* clean_html_text(html_text).  html.unescape (line 35) changes a text only
\* at a "&"; the texts of the model hold none.
clean_html_text(html_text) ==
    IF html_text = << >> THEN << >>
    ELSE Strip(CollapseBlanks(SquashNewlineRuns(RemoveTags(html_text), 2)))

\* format_disciplines line 301: re.match(r"^[A-Z][^:]*:", line)
MatchesTitleColon(line) ==
    line # << >> /\ IsUpper(line[1]) /\ \E i \in 2..Len(line) : line[i] = ":"

\* format_disciplines line 313: re.match(r"^[A-Z][^:]+$", line)
MatchesTitlePlain(line) ==
    Len(line) >= 2 /\ IsUpper(line[1]) /\ \A i \in 2..Len(line) : line[i] # ":"

\* the openings of lines 304-308 that mark a description, not a title
DescriptionOpenings ==
    { <<"V", "o", "c", ECIRC, " ">>,
      <<"E", "s", "t", "a", " ", "d", "i", "s", "c", "i", "p", "l", "i", "n", "a">>,
      <<"A", "q", "u", "i", ",", " ", "v", "o", "c", ECIRC>>,
      <<"U", "m", " ", "d", "o", "s", " ", "d", "i", "f", "e", "r", "e", "n", "c", "i", "a", "i", "s">>,
      <<"D", "i", "s", "c", "i", "p", "l", "i", "n", "a", "s">> }

\* format_disciplines lines 301-322: the line is the title of a discipline
IsTitleLine(line) ==
    /\ MatchesTitleColon(line) \/ MatchesTitlePlain(line)
    /\ Len(line) > 5
    /\ ~MatchesSemester(line)
    /\ \A o \in DescriptionOpenings : ~StartsWith(line, o)

RECURSIVE FormatLines(_)
\* format_disciplines lines 287-325: the loop over the lines
FormatLines(lines) ==
    IF lines = << >> THEN << >>
    ELSE LET line == Strip(Head(lines))
         IN  (IF line = << >> \/ line = <<"|">> \/ line = <<"|", "|">> THEN << >>
              ELSE IF MatchesSemester(line) \/ IsTitleLine(line)
              THEN << <<"\n">> \o line >>
              ELSE <<line>>)
             \o FormatLines(Tail(lines))

\* format_disciplines(text)
format_disciplines(text) ==
    IF text = << >> THEN << >>
    ELSE Strip(SquashNewlineRuns(
                  JoinNewline(FormatLines(SplitLines(clean_html_text(text)))), 3))

RECURSIVE GroupSemesters(_, _, _)
\* split_oque_vou_aprender_sections lines 200-211: the blocks, a new one
\* at every line that opens with a semester header
GroupSemesters(lines, semesters, current) ==
    IF lines = << >>
    THEN IF current # << >> THEN Append(semesters, Strip(JoinNewline(current)))
         ELSE semesters
    ELSE LET line == Head(lines)
         IN  IF line = << >> THEN GroupSemesters(Tail(lines), semesters, current)
             ELSE IF MatchesSemester(line) /\ current # << >>
             THEN GroupSemesters(Tail(lines),
                                 Append(semesters, Strip(JoinNewline(current))), <<line>>)
             ELSE GroupSemesters(Tail(lines), semesters, Append(current, line))

\* lines 194-211: the blocks of a formatted text
SemesterBlocks(formatted) ==
    LET split == SplitLines(formatted)
    IN  GroupSemesters([i \in 1..Len(split) |-> Strip(split[i])], << >>, << >>)

\* line 217: [l for l in block.split("\n") if l.strip()]
BlockLines(block) == SelectSeq(SplitLines(block), LAMBDA l : Strip(l) # << >>)

\* The sub-chunk as chunk_text_range gave it, without the header.
ComposeSubBare(semestre_header, sub) == collapse_whitespace(sub)

\* line 244: collapse_whitespace(f"{semestre_header} {sub}")
ComposeSub(semestre_header, sub) == collapse_whitespace(semestre_header \o <<" ">> \o sub)

\* lines 217-245: the chunks one block gives
BlockChunks(block) ==
    LET block_lines == BlockLines(block)
    IN  IF block_lines = << >> THEN << >>
        ELSE LET semestre_header == block_lines[1]
                 resto_lines == Tail(block_lines)
                 header_only == collapse_whitespace(semestre_header)
                 resto_text == collapse_whitespace(Join(resto_lines))
                 full == collapse_whitespace(semestre_header \o <<" ">> \o resto_text)
                 subs == chunk_text_range(resto_text, ScaledSubMin, ScaledSubMax)
             IN  IF resto_lines = << >>
                 THEN IF header_only # << >> THEN <<header_only>> ELSE << >>
                 ELSE IF resto_text = << >> THEN << >>
                 ELSE IF Len(full) <= ScaledBlockMax THEN <<full>>
                 ELSE [i \in 1..Len(subs) |-> ComposeSub(semestre_header, subs[i])]

RECURSIVE AllBlockChunks(_)
\* lines 216-245: the loop over the blocks
AllBlockChunks(semesters) ==
    IF semesters = << >> THEN << >>
    ELSE BlockChunks(Head(semesters)) \o AllBlockChunks(Tail(semesters))

\* split_oque_vou_aprender_sections(raw_text)
split_oque_vou_aprender_sections(raw_text) ==
    LET formatted == format_disciplines(raw_text)
    IN  IF formatted = << >> THEN << >>
        ELSE AllBlockChunks(SemesterBlocks(formatted))

(***************************************************************************)
(* build_index: the course records and what the loop body makes of them.   *)
(***************************************************************************)
\* bool(value) for a value that is absent (None), null or a string
Truthy(v) == v.k = "str" /\ v.s # << >>

\* str(value) for a value that is null or a string
PyStr(v) == IF v.k = "null" THEN <<"N", "o", "n", "e">> ELSE v.s

\* course["toDisplay"]: no such key, null, or an object with two keys
TdAbsent == [k |-> "absent", title |-> Absent, tipoName |-> Absent]

TdNull == [k |-> "null", title |-> Absent, tipoName |-> Absent]

TdObj(title, tipoName) == [k |-> "obj", title |-> title, tipoName |-> tipoName]

\* line 140: str(course.get("articleId", ""))
ArticleIdOf(course) == PyStr(GetOrEmpty(course.articleId))

\* line 141 raises AttributeError: course.get("toDisplay", {}) is None when
\* the key is there with a null, and .get is called on it when the course's
\* own title is falsy
TitleRaises(course) == ~Truthy(course.title) /\ course.toDisplay.k = "null"

\* line 141: str(course.get("title") or course.get("toDisplay", {}).get("title") or "")
TitleOf(course) ==
    IF Truthy(course.title) THEN course.title.s
    ELSE IF course.toDisplay.k = "obj" /\ Truthy(course.toDisplay.title)
    THEN course.toDisplay.title.s
    ELSE << >>

\* lines 142-143: to_display = course.get("toDisplay", {}) or {};
\* tipo_name = str(to_display.get("tipoName") or "")
TipoNameOf(course) ==
    IF course.toDisplay.k = "obj" /\ Truthy(course.toDisplay.tipoName)
    THEN course.toDisplay.tipoName.s
    ELSE << >>

\* line 144: campo_override or tipo_name or ""
CampoValue(campo_override, tipo_name) ==
    IF Truthy(campo_override) THEN campo_override.s ELSE tipo_name

\* lines 146-156: the four (field name, normalized text) pairs, in order
FieldsOf(course) ==
    << [name |-> "objetivo", text |-> strip_html(GetOrEmpty(course.objetivoComercial))],
       [name |-> "metodologia", text |-> strip_html(GetOrEmpty(course.comoVouAprender))],
       [name |-> "requisitos", text |-> strip_html(GetOrEmpty(course.possoFazerEsseCurso))],
       [name |-> "conteudo", text |-> strip_html(GetOrEmpty(course.oqueVouAprender))] >>

\* lines 159-169 for one field: one snippet per chunk (the id is given by
\* WithIds); simple_chunk of an empty text is the empty list, as line 159-160
FieldSnippets(course, campo_override, field) ==
    LET chunks == IF field.text = << >> THEN << >>
                  ELSE simple_chunk(field.text, ScaledMaxChars, ScaledOverlap)
    IN  [i \in 1..Len(chunks) |->
            [text |-> chunks[i],
             metadata |-> [id |-> 0,
                           articleId |-> ArticleIdOf(course),
                           nomeCurso |-> TitleOf(course),
                           campo |-> CampoValue(campo_override, TipoNameOf(course)),
                           field |-> field.name]]]

\* line 163: str(uuid.uuid4()) gives a value no earlier call gave; the model
\* numbers the calls, first being the number of the first call made here
WithIds(snips, first) ==
    [i \in 1..Len(snips) |-> [snips[i] EXCEPT !.metadata.id = first + i - 1]]

\* lines 158-169: the snippets one course appends
CourseSnippets(course, campo_override, first) ==
    LET f == FieldsOf(course)
    IN  WithIds(FieldSnippets(course, campo_override, f[1])
                \o FieldSnippets(course, campo_override, f[2])
                \o FieldSnippets(course, campo_override, f[3])
                \o FieldSnippets(course, campo_override, f[4]), first)

\* _embed_texts on one text.  The sentence-transformers model is outside the
\* repository; the model needs a fixed function of the text and takes the
\* vector (number of "a", number of other non-space characters).
Embed(text) ==
    [x |-> Len(SelectSeq(text, LAMBDA c : c = "a")),
     y |-> Len(SelectSeq(text, LAMBDA c : c # "a" /\ ~IsSpace(c)))]

\* lines 87-89: _embed_texts(model, texts)
_embed_texts(texts) == [i \in 1..Len(texts) |-> Embed(texts[i])]

\* the score IndexFlatIP gives: the inner product
InnerProduct(q, v) == q.x * v.x + q.y * v.y

\* line 184: rec = {**s.metadata, "text": s.text}
RecordOf(snippet) == [text |-> snippet.text] @@ snippet.metadata

\* lines 183-185: the lines of the metadata file for a list of snippets
RecordsOf(snips) == [i \in 1..Len(snips) |-> RecordOf(snips[i])]

\* The file opened with mode "a": what it held stays.
OpenForAppend(file) == IF file.k = "file" THEN file ELSE [k |-> "file", recs |-> << >>]

\* line 182: open(path, "w") leaves an empty file
OpenForWrite(file) == [k |-> "file", recs |-> << >>]

\* The check reading "cursos" not in data: an empty list passes.
HasCoursesKeyOnly(kind) == kind \in {"list", "empty"}

\* lines 127-128: cursos = data.get("cursos", []); `not cursos` is false
\* only for a non-empty list
HasCourses(kind) == kind = "list"

(***************************************************************************)
(* query_index                                                             *)
(***************************************************************************)
RECURSIVE BestFirst(_, _, _, _)
\* the lists of the m best of the ordinals in left (1-based), best first
\* by inner product with q, vectors of equal score in either order
BestFirst(vecs, q, left, m) ==
    IF m = 0 \/ left = {} THEN {<< >>}
    ELSE LET best == {i \in left : \A j \in left :
                         InnerProduct(q, vecs[j]) <= InnerProduct(q, vecs[i])}
         IN  UNION {{<<i>> \o rest : rest \in BestFirst(vecs, q, left \ {i}, m - 1)} :
                       i \in best}

\* index.search(q_vec, k) for k >= 1 on IndexFlatIP: the k best ordinals
\* (0-based) by inner product, best first, ties in any order, filled up with
\* ordinal -1 when the index holds fewer than k vectors.  The set of the
\* results the library may give.
FaissSearch(vecs, q, k) ==
    LET m == Min(k, Len(vecs))
    IN  {[j \in 1..k |-> IF j <= m
                         THEN [score |-> InnerProduct(q, vecs[f[j]]), idx |-> f[j] - 1]
                         ELSE [score |-> -1, idx |-> -1]] :
            f \in BestFirst(vecs, q, 1..Len(vecs), m)}

RECURSIVE Rehydrate(_, _)
\* lines 216-222: the records of the hits whose ordinal is in the metadata
\* list, each a copy of the record with the score added, and the ordinal
\* kept beside it
Rehydrate(hits, metadata) ==
    IF hits = << >> THEN << >>
    ELSE LET h == Head(hits)
         IN  (IF h.idx < 0 \/ h.idx >= Len(metadata) THEN << >>
              ELSE <<[idx |-> h.idx, rec |-> [score |-> h.score] @@ metadata[h.idx + 1]]>>)
             \o Rehydrate(Tail(hits), metadata)

\* what a call of query_index left behind
QueryOutcome(state, err, hits, results) ==
    [state |-> state, err |-> err, hits |-> hits, results |-> results]

\* The call with the existence check of line 191 made on the index file
\* only: a missing metadata file reads as an empty list.
QueryIndexFileOnly(query, index_file, meta_file, top_k) ==
    IF index_file.k = "none"
    THEN {QueryOutcome("raised", "FileNotFoundError", << >>, << >>)}
    ELSE LET metadata == meta_file.recs
             k == Min(top_k, Len(metadata))
         IN  IF k < 1
             THEN {QueryOutcome("raised", "AssertionError", << >>, << >>),
                   QueryOutcome("returned", "", << >>, << >>)}
             ELSE {QueryOutcome("returned", "", hits, Rehydrate(hits, metadata)) :
                      hits \in FaissSearch(index_file.vecs, Embed(query), k)}

\* query_index(query, index_dir, top_k): the outcomes the call may have on
\* the two files.  lines 191-192: a missing file raises FileNotFoundError;
\* line 215: a k below 1 is refused by faiss's wrapper (assert k > 0) or,
\* with the older wrapper, gives an empty result.
query_index(query, index_file, meta_file, top_k) ==
    IF index_file.k = "none" \/ meta_file.k = "none"
    THEN {QueryOutcome("raised", "FileNotFoundError", << >>, << >>)}
    ELSE LET metadata == meta_file.recs
             k == Min(top_k, Len(metadata))
         IN  IF k < 1
             THEN {QueryOutcome("raised", "AssertionError", << >>, << >>),
                   QueryOutcome("returned", "", << >>, << >>)}
             ELSE {QueryOutcome("returned", "", hits, Rehydrate(hits, metadata)) :
                      hits \in FaissSearch(index_file.vecs, Embed(query), k)}

(***************************************************************************)
(* State.                                                                  *)
(***************************************************************************)
VARIABLES
    \* SpecChunk: one call of simple_chunk
    sc_in,        \* the argument text
    sc_max,       \* max_chars
    sc_overlap,   \* overlap
    sc_pc,        \* "call", "loop" or "done"
    sc_text,      \* text after line 58
    sc_start,     \* start
    sc_chunks,    \* chunks, each with the offset of its first character
    sc_spans,     \* the windows [start, cut) taken so far
    \* SpecRange: chunk_text_range and bullets_from_text on one text
    rt_text,      \* the argument text
    rt_min,       \* min_chars / min_len
    rt_max,       \* max_chars / max_len
    rt_chunks,    \* what chunk_text_range returned, in a one-element list
    rt_bullets,   \* what bullets_from_text returned, in a one-element list
    \* Spec: the index directory
    dirExists,    \* whether index_dir exists
    indexFile,    \* index.faiss: none or the vectors in add order
    metaFile,     \* metadata.jsonl: none or the records, one per line
    \* Spec: the build_index run under way or last ended
    pc,           \* where build_index is
    err,          \* the exception it raised, "" for none
    data_cursos,  \* what data.get("cursos", []) gave: absent, null, empty, list
    campo_override,
    ncourses,     \* courses of the corpus the loop has taken
    snippets,     \* snippets
    index,        \* the vectors added to the faiss index in memory
    written,      \* records written to the metadata file by the loop of line 183
    uuid_next,    \* number of uuid4 calls made so far
    builds,       \* build_index runs started
    \* Spec: history kept for the claims
    old,          \* the directory and the build's outcome when the run started
    course,       \* the course the loop body last took, in a list
    course_first, \* len(snippets) before that course
    all_empty,    \* every course taken so far has only empty normalized fields
    added,        \* the texts whose embeddings were added to the index, in order
    first_id,     \* uuid_next when the run started
    \* Spec: the last query_index call since the last build
    q_query,
    q_k,
    q,            \* its outcome
    \* SpecSections: one call of split_oque_vou_aprender_sections
    so_raw,       \* the argument raw_text
    so_pc,        \* "call", "group", "blocks" or "done"
    so_formatted, \* formatted
    so_semesters, \* semesters, the blocks
    so_next,      \* blocks the loop of line 216 has taken
    so_chunks     \* chunks, each with the number of the block it came from

chunkVars == <<sc_in, sc_max, sc_overlap, sc_pc, sc_text, sc_start, sc_chunks, sc_spans>>

rangeVars == <<rt_text, rt_min, rt_max, rt_chunks, rt_bullets>>

dirVars == <<dirExists, indexFile, metaFile>>

buildVars == <<pc, err, data_cursos, campo_override, ncourses, snippets, index, written,
               uuid_next, builds, old, course, course_first, all_empty, added, first_id>>

queryVars == <<q_query, q_k, q>>

sectionVars == <<so_raw, so_pc, so_formatted, so_semesters, so_next, so_chunks>>

vars == <<chunkVars, rangeVars, dirVars, buildVars, queryVars, sectionVars>>

(***************************************************************************)
(* SpecChunk: simple_chunk step by step.                                   *)
(***************************************************************************)
ChunkAlphabet == {"a", ".", " "}

RECURSIVE TextsUpTo(_, _)
\* every text over alphabet of length at most n
TextsUpTo(alphabet, n) ==
    IF n = 0 THEN {<< >>}
    ELSE LET shorter == TextsUpTo(alphabet, n - 1)
         IN  shorter \cup {Append(t, c) : t \in {u \in shorter : Len(u) = n - 1},
                                          c \in alphabet}

\* no call of simple_chunk is under way
ChunkIdle ==
    /\ sc_pc = "idle" /\ sc_in = << >> /\ sc_max = 1 /\ sc_overlap = 0
    /\ sc_text = << >> /\ sc_start = 0 /\ sc_chunks = << >> /\ sc_spans = << >>

\* no call of chunk_text_range or bullets_from_text is under way
RangeIdle ==
    /\ rt_text = << >> /\ rt_min = 1 /\ rt_max = 1
    /\ rt_chunks = << >> /\ rt_bullets = << >>

\* no call of split_oque_vou_aprender_sections is under way
SectionIdle ==
    /\ so_raw = << >> /\ so_pc = "idle" /\ so_formatted = << >>
    /\ so_semesters = << >> /\ so_next = 0 /\ so_chunks = << >>

NoFile == [k |-> "none", vecs |-> << >>, recs |-> << >>]

NoQuery == QueryOutcome("none", "", << >>, << >>)

\* no query_index call has been made since the last build started
QueryIdle == q_query = << >> /\ q_k = 0 /\ q = NoQuery

\* the directory does not exist and build_index has not been called
BuildIdle ==
    /\ dirExists = FALSE /\ indexFile = NoFile /\ metaFile = NoFile
    /\ pc = "idle" /\ err = "" /\ data_cursos = "absent" /\ campo_override = Null
    /\ ncourses = 0 /\ snippets = << >> /\ index = << >> /\ written = 0
    /\ uuid_next = 0 /\ builds = 0
    /\ old = [dirExists |-> FALSE, indexFile |-> NoFile, metaFile |-> NoFile, pc |-> "idle"]
    /\ course = << >> /\ course_first = 0 /\ all_empty = TRUE /\ added = << >>
    /\ first_id = 0
    /\ QueryIdle

InitChunk ==
    /\ SectionIdle
    /\ RangeIdle
    /\ BuildIdle
    /\ sc_in \in TextsUpTo(ChunkAlphabet, MaxLen)
    /\ sc_max \in 1..MaxMaxChars
    /\ sc_overlap \in 0..MaxOverlap
    /\ sc_pc = "call"
    /\ sc_text = << >>
    /\ sc_start = 0
    /\ sc_chunks = << >>
    /\ sc_spans = << >>

\* lines 58-64: strip, the two early returns, start = 0
ScEnter ==
    /\ sc_pc = "call"
    /\ sc_text' = Strip(sc_in)
    /\ sc_start' = 0
    /\ IF sc_text' = << >>
       THEN sc_chunks' = << >> /\ sc_spans' = << >> /\ sc_pc' = "done"
       ELSE IF Len(sc_text') <= sc_max
       THEN /\ sc_chunks' = <<[text |-> sc_text', off |-> 0]>>
            /\ sc_spans' = <<[start |-> 0, cut |-> Len(sc_text')]>>
            /\ sc_pc' = "done"
       ELSE sc_chunks' = << >> /\ sc_spans' = << >> /\ sc_pc' = "loop"
    /\ UNCHANGED <<sc_in, sc_max, sc_overlap>>
    /\ UNCHANGED <<rangeVars, sectionVars, dirVars, buildVars, queryVars>>

\* lines 65-74: one iteration of the while loop
ScIterate ==
    /\ sc_pc = "loop"
    /\ sc_start < Len(sc_text)
    /\ LET cut == SimpleChunkCut(sc_text, sc_start, sc_max)
       IN  /\ sc_chunks' = sc_chunks \o SimpleChunkEmit(sc_text, sc_start, cut)
           /\ sc_spans' = Append(sc_spans, [start |-> sc_start, cut |-> cut])
           /\ sc_start' = SimpleChunkNextStart(cut, sc_start, sc_overlap)
    /\ UNCHANGED <<sc_in, sc_max, sc_overlap, sc_pc, sc_text>>
    /\ UNCHANGED <<rangeVars, sectionVars, dirVars, buildVars, queryVars>>

\* lines 65, 75: the loop condition fails and the chunks are returned
ScReturn ==
    /\ sc_pc = "loop"
    /\ sc_start >= Len(sc_text)
    /\ sc_pc' = "done"
    /\ UNCHANGED <<sc_in, sc_max, sc_overlap, sc_text, sc_start, sc_chunks, sc_spans>>
    /\ UNCHANGED <<rangeVars, sectionVars, dirVars, buildVars, queryVars>>

NextChunk == ScEnter \/ ScIterate \/ ScReturn

SpecChunk == InitChunk /\ [][NextChunk]_vars

\* The call runs on: the interpreter takes the next step of simple_chunk
\* whenever there is one.
InitChunkFair == InitChunk /\ Len(sc_in) <= MaxFairLen

SpecChunkFair == InitChunkFair /\ [][NextChunk]_vars /\ WF_vars(NextChunk)

(***************************************************************************)
(* SpecRange: chunk_text_range and bullets_from_text applied to one text.  *)
(***************************************************************************)
RangeAlphabet == {"a", ".", " ", "\n"}

InitRange ==
    /\ SectionIdle
    /\ ChunkIdle
    /\ BuildIdle
    /\ rt_text \in TextsUpTo(RangeAlphabet, MaxRangeLen)
    /\ rt_min \in 1..MaxRangeMin
    /\ rt_max \in 1..MaxRangeMax
    /\ rt_chunks = << >>
    /\ rt_bullets = << >>

\* a call chunk_text_range(rt_text, rt_min, rt_max)
CallChunkTextRange ==
    /\ rt_chunks = << >>
    /\ rt_chunks' = <<chunk_text_range(rt_text, rt_min, rt_max)>>
    /\ UNCHANGED <<rt_text, rt_min, rt_max, rt_bullets>>
    /\ UNCHANGED <<chunkVars, dirVars, buildVars, queryVars, sectionVars>>

\* a call bullets_from_text(rt_text, rt_min, rt_max)
CallBulletsFromText ==
    /\ rt_bullets = << >>
    /\ rt_bullets' = <<bullets_from_text(rt_text, rt_min, rt_max)>>
    /\ UNCHANGED <<rt_text, rt_min, rt_max, rt_chunks>>
    /\ UNCHANGED <<chunkVars, dirVars, buildVars, queryVars, sectionVars>>

NextRange == CallChunkTextRange \/ CallBulletsFromText

SpecRange == InitRange /\ [][NextRange]_vars

(***************************************************************************)
(* SpecLimit: chunk_text_range and simple_chunk applied to the same text   *)
(* with the same max_chars.                                                *)
(***************************************************************************)
InitLimit ==
    /\ SectionIdle
    /\ BuildIdle
    /\ rt_text \in TextsUpTo(ChunkAlphabet, MaxRangeLen)
    /\ rt_min \in 1..MaxRangeMin
    /\ rt_max \in 1..MaxRangeMax
    /\ rt_chunks = << >>
    /\ rt_bullets = << >>
    /\ sc_in = rt_text
    /\ sc_max = rt_max
    /\ sc_overlap \in 0..MaxOverlap
    /\ sc_pc = "call"
    /\ sc_text = << >>
    /\ sc_start = 0
    /\ sc_chunks = << >>
    /\ sc_spans = << >>

NextLimit == CallChunkTextRange \/ ScEnter \/ ScIterate \/ ScReturn

SpecLimit == InitLimit /\ [][NextLimit]_vars

(***************************************************************************)
(* SpecSections: split_oque_vou_aprender_sections step by step.            *)
(***************************************************************************)
\* the lines the texts of the model are made of
SectionLines ==
    {
      \* a header
      <<"1", ORDINAL, " ", "s", "e", "m", "e", "s", "t", "r", "e">>,
      \* a header with a non-breaking space, capitals and a trailing word
      <<"2", ORDINAL, NBSP, "S", "E", "M", "E", "S", "T", "R", "E", " ", "b">>,
      \* a short description inside a tag
      <<"<", "b", ">", "a", "b", ".", "<", "/", "b", ">">>,
      \* a description of two sentences
      <<"a", "a", "a", " ", "b", "b", ".", " ", "c", "c", " ", "d", "d", "d", ".">>,
      \* a separator
      <<"|">>,
      \* a title of a discipline
      <<"A", "b", "c", "d", "e", "f">> }

InitSections ==
    /\ ChunkIdle
    /\ RangeIdle
    /\ BuildIdle
    /\ so_raw \in {JoinNewline(ls) : ls \in TextsUpTo(SectionLines, MaxLines)}
    /\ so_pc = "call"
    /\ so_formatted = << >>
    /\ so_semesters = << >>
    /\ so_next = 0
    /\ so_chunks = << >>

\* lines 190-192: format_disciplines and the early return
SoFormat ==
    /\ so_pc = "call"
    /\ so_formatted' = format_disciplines(so_raw)
    /\ so_pc' = IF so_formatted' = << >> THEN "done" ELSE "group"
    /\ UNCHANGED <<so_raw, so_semesters, so_next, so_chunks>>
    /\ UNCHANGED <<chunkVars, rangeVars, dirVars, buildVars, queryVars>>

\* lines 194-213: the lines are grouped into blocks
SoGroup ==
    /\ so_pc = "group"
    /\ so_semesters' = SemesterBlocks(so_formatted)
    /\ so_pc' = "blocks"
    /\ UNCHANGED <<so_raw, so_formatted, so_next, so_chunks>>
    /\ UNCHANGED <<chunkVars, rangeVars, dirVars, buildVars, queryVars>>

\* lines 216-245: one iteration of the loop over the blocks
SoBlock ==
    /\ so_pc = "blocks"
    /\ so_next < Len(so_semesters)
    /\ LET new == BlockChunks(so_semesters[so_next + 1])
       IN  so_chunks' = so_chunks
              \o [i \in 1..Len(new) |-> [text |-> new[i], block |-> so_next + 1]]
    /\ so_next' = so_next + 1
    /\ UNCHANGED <<so_raw, so_pc, so_formatted, so_semesters>>
    /\ UNCHANGED <<chunkVars, rangeVars, dirVars, buildVars, queryVars>>

\* line 247: the loop is over and the chunks are returned
SoReturn ==
    /\ so_pc = "blocks"
    /\ so_next = Len(so_semesters)
    /\ so_pc' = "done"
    /\ UNCHANGED <<so_raw, so_formatted, so_semesters, so_next, so_chunks>>
    /\ UNCHANGED <<chunkVars, rangeVars, dirVars, buildVars, queryVars>>

NextSections == SoFormat \/ SoGroup \/ SoBlock \/ SoReturn

SpecSections == InitSections /\ [][NextSections]_vars

(***************************************************************************)
(* Spec: build_index and query_index over one index directory.  Runs are   *)
(* sequential: the module starts no thread and the command line of lines   *)
(* 244-251 runs one command per process.  The only failures of the         *)
(* environment modelled are I/O errors of the persist steps, lines         *)
(* 178-185, each refusing a whole step.                                    *)
(***************************************************************************)
A7 == Str(<<"7">>)

TitleT == Str(<<"T">>)

\* The course records of the model's corpora.
Courses ==
    { \* every key present; the objective gives several chunks
      [articleId |-> A7, title |-> TitleT,
       toDisplay |-> TdObj(Str(<<"D">>), Str(<<"G">>)),
       objetivoComercial |-> Str(<<"<", "b", ">", "a", "b", ".", " ", "c", "<", "/", "b", ">">>),
       comoVouAprender |-> Null,
       possoFazerEsseCurso |-> Absent,
       oqueVouAprender |-> Str(<< >>)],
      \* id and title null, the title taken from toDisplay, no tipoName
      [articleId |-> Null, title |-> Null,
       toDisplay |-> TdObj(Str(<<"D">>), Absent),
       objetivoComercial |-> Null,
       comoVouAprender |-> Str(<<"a">>),
       possoFazerEsseCurso |-> Absent,
       oqueVouAprender |-> Str(<<"b", NBSP, "a">>)],
      \* no key but texts that normalize to nothing
      [articleId |-> Absent, title |-> Absent,
       toDisplay |-> TdAbsent,
       objetivoComercial |-> Str(<<"<", "p", ">", " ", "<", "/", "p", ">">>),
       comoVouAprender |-> Str(<<NBSP>>),
       possoFazerEsseCurso |-> Absent,
       oqueVouAprender |-> Null],
      \* toDisplay null beside a title
      [articleId |-> A7, title |-> TitleT,
       toDisplay |-> TdNull,
       objetivoComercial |-> Absent,
       comoVouAprender |-> Absent,
       possoFazerEsseCurso |-> Str(<<"a", "a">>),
       oqueVouAprender |-> Absent],
      \* toDisplay null and no title, one text
      [articleId |-> A7, title |-> Absent,
       toDisplay |-> TdNull,
       objetivoComercial |-> Absent,
       comoVouAprender |-> Str(<<"a">>),
       possoFazerEsseCurso |-> Absent,
       oqueVouAprender |-> Absent],
      \* toDisplay null, title null, no text
      [articleId |-> A7, title |-> Null,
       toDisplay |-> TdNull,
       objetivoComercial |-> Absent,
       comoVouAprender |-> Null,
       possoFazerEsseCurso |-> Absent,
       oqueVouAprender |-> Absent] }

\* the values of campo_override: None (the default) or a string
CampoOverrides == {Null, Str(<<"X">>)}

\* what data.get("cursos", []) may give
CursosKinds == {"absent", "null", "empty", "list"}

\* the query strings and result counts asked
Queries == {<<"a">>, <<"b", ".">>}

TopKs == 0..MaxTopK

\* build_index is not running
AtRest == pc \in {"idle", "returned", "raised"}

\* every normalized field of the course is empty
AllFieldsEmpty(c) == \A i \in 1..4 : FieldsOf(c)[i].text = << >>

Init ==
    /\ SectionIdle
    /\ ChunkIdle
    /\ RangeIdle
    /\ BuildIdle

\* lines 124-129: the call, the JSON read, the check of "cursos"
BuildOpen ==
    /\ AtRest
    /\ q = NoQuery
    /\ builds < MaxBuilds
    /\ builds' = builds + 1
    /\ \E kind \in CursosKinds, campo \in CampoOverrides :
         /\ data_cursos' = kind
         /\ campo_override' = campo
         /\ IF HasCourses(kind)
            THEN pc' = "courses" /\ err' = ""
            ELSE pc' = "raised" /\ err' = "ValueError: no cursos"
    /\ old' = [dirExists |-> dirExists, indexFile |-> indexFile,
               metaFile |-> metaFile, pc |-> pc]
    /\ ncourses' = 0 /\ snippets' = << >> /\ index' = << >> /\ written' = 0
    /\ course' = << >> /\ course_first' = 0 /\ all_empty' = TRUE /\ added' = << >>
    /\ first_id' = uuid_next
    /\ UNCHANGED <<uuid_next, dirVars, queryVars, chunkVars, rangeVars, sectionVars>>

\* lines 139-169: the loop body on the next course of the list
BuildCourse ==
    /\ pc = "courses"
    /\ data_cursos = "list"
    /\ ncourses < MaxCourses
    /\ \E c \in Courses :
         /\ course' = <<c>>
         /\ course_first' = Len(snippets)
         /\ all_empty' = (all_empty /\ AllFieldsEmpty(c))
         /\ ncourses' = ncourses + 1
         /\ IF TitleRaises(c)
            THEN /\ pc' = "raised" /\ err' = "AttributeError"
                 /\ UNCHANGED <<snippets, uuid_next>>
            ELSE LET new == CourseSnippets(c, campo_override, uuid_next)
                 IN  /\ snippets' = snippets \o new
                     /\ uuid_next' = uuid_next + Len(new)
                     /\ UNCHANGED <<pc, err>>
    /\ UNCHANGED <<data_cursos, campo_override, index, written, builds, old, added, first_id>>
    /\ UNCHANGED <<dirVars, queryVars, chunkVars, rangeVars, sectionVars>>

\* lines 139, 171-176: the list is exhausted; no snippet raises, else the
\* texts are embedded in one batch and added to the index in memory
BuildEmbed ==
    /\ pc = "courses"
    /\ IF data_cursos = "list" THEN ncourses >= 1 ELSE TRUE
    /\ IF snippets = << >>
       THEN /\ pc' = "raised" /\ err' = "ValueError: no content"
            /\ UNCHANGED <<index, added>>
       ELSE LET texts == [i \in 1..Len(snippets) |-> snippets[i].text]
            IN  /\ index' = index \o _embed_texts(texts)
                /\ added' = added \o texts
                /\ pc' = "ensure_dir"
                /\ UNCHANGED err
    /\ course' = << >> /\ course_first' = 0
    /\ UNCHANGED <<data_cursos, campo_override, ncourses, snippets, written, uuid_next,
                   builds, old, all_empty, first_id>>
    /\ UNCHANGED <<dirVars, queryVars, chunkVars, rangeVars, sectionVars>>

\* line 178: _ensure_dir(index_dir)
BuildEnsureDir ==
    /\ pc = "ensure_dir"
    /\ dirExists' = TRUE
    /\ pc' = "write_index"
    /\ UNCHANGED <<indexFile, metaFile>>
    /\ UNCHANGED <<err, data_cursos, campo_override, ncourses, snippets, index, written,
                   uuid_next, builds, old, course, course_first, all_empty, added, first_id>>
    /\ UNCHANGED <<queryVars, chunkVars, rangeVars, sectionVars>>

\* line 179: faiss.write_index(index, path)
BuildWriteIndex ==
    /\ pc = "write_index"
    /\ indexFile' = [k |-> "index", vecs |-> index, recs |-> << >>]
    /\ pc' = "open_meta"
    /\ UNCHANGED <<dirExists, metaFile>>
    /\ UNCHANGED <<err, data_cursos, campo_override, ncourses, snippets, index, written,
                   uuid_next, builds, old, course, course_first, all_empty, added, first_id>>
    /\ UNCHANGED <<queryVars, chunkVars, rangeVars, sectionVars>>

\* line 182: open(metadata path, "w")
BuildOpenMeta ==
    /\ pc = "open_meta"
    /\ metaFile' = [k |-> "file", vecs |-> << >>, recs |-> OpenForWrite(metaFile).recs]
    /\ written' = 0
    /\ pc' = "write_meta"
    /\ UNCHANGED <<dirExists, indexFile>>
    /\ UNCHANGED <<err, data_cursos, campo_override, ncourses, snippets, index,
                   uuid_next, builds, old, course, course_first, all_empty, added, first_id>>
    /\ UNCHANGED <<queryVars, chunkVars, rangeVars, sectionVars>>

\* lines 183-185: one iteration of the loop that writes the records
BuildWriteRecord ==
    /\ pc = "write_meta"
    /\ written < Len(snippets)
    /\ metaFile' = [metaFile EXCEPT !.recs = Append(@, RecordOf(snippets[written + 1]))]
    /\ written' = written + 1
    /\ UNCHANGED <<dirExists, indexFile>>
    /\ UNCHANGED <<pc, err, data_cursos, campo_override, ncourses, snippets, index,
                   uuid_next, builds, old, course, course_first, all_empty, added, first_id>>
    /\ UNCHANGED <<queryVars, chunkVars, rangeVars, sectionVars>>

\* line 185: the loop ends, the file is closed, build_index returns
BuildReturn ==
    /\ pc = "write_meta"
    /\ written = Len(snippets)
    /\ pc' = "returned"
    /\ UNCHANGED <<err, data_cursos, campo_override, ncourses, snippets, index, written,
                   uuid_next, builds, old, course, course_first, all_empty, added, first_id>>
    /\ UNCHANGED <<dirVars, queryVars, chunkVars, rangeVars, sectionVars>>

\* lines 178-185: the operating system refuses the step the run is at
\* (makedirs, opening either file, writing a record); nothing is written
BuildIOError ==
    /\ pc \in {"ensure_dir", "write_index", "open_meta", "write_meta"}
    /\ pc' = "raised" /\ err' = "OSError"
    /\ UNCHANGED <<data_cursos, campo_override, ncourses, snippets, index, written,
                   uuid_next, builds, old, course, course_first, all_empty, added, first_id>>
    /\ UNCHANGED <<dirVars, queryVars, chunkVars, rangeVars, sectionVars>>

\* The call writing the scored records back to the metadata file.
QueryIndexWriteBack ==
    /\ AtRest
    /\ q = NoQuery
    /\ \E query \in Queries, top_k \in TopKs :
         \E out \in query_index(query, indexFile, metaFile, top_k) :
            /\ q_query' = query /\ q_k' = top_k /\ q' = out
            /\ metaFile' = [metaFile EXCEPT !.recs =
                  [i \in 1..Len(@) |->
                      IF \E j \in 1..Len(out.results) : out.results[j].idx = i - 1
                      THEN (CHOOSE r \in {out.results[j] : j \in 1..Len(out.results)} :
                               r.idx = i - 1).rec
                      ELSE @[i]]]
    /\ UNCHANGED <<dirExists, indexFile, buildVars, chunkVars, rangeVars, sectionVars>>

\* lines 206-223: a call of query_index on the directory
QueryIndex ==
    /\ AtRest
    /\ q = NoQuery
    /\ \E query \in Queries, top_k \in TopKs :
         \E out \in query_index(query, indexFile, metaFile, top_k) :
            q_query' = query /\ q_k' = top_k /\ q' = out
    /\ UNCHANGED <<dirVars, buildVars, chunkVars, rangeVars, sectionVars>>

\* lines 249-251: the caller has printed the hits (or the traceback) and the
\* query process is gone
QueryExit ==
    /\ q # NoQuery
    /\ q_query' = << >> /\ q_k' = 0 /\ q' = NoQuery
    /\ UNCHANGED <<dirVars, buildVars, chunkVars, rangeVars, sectionVars>>

Next ==
    \/ BuildOpen
    \/ BuildCourse
    \/ BuildEmbed
    \/ BuildEnsureDir
    \/ BuildWriteIndex
    \/ BuildOpenMeta
    \/ BuildWriteRecord
    \/ BuildReturn
    \/ BuildIOError
    \/ QueryIndex
    \/ QueryExit

Spec == Init /\ [][Next]_vars

(***************************************************************************)
(* Claims about build_index and query_index (Spec).                        *)
(***************************************************************************)
\* the directory is as it was when the build run started
DirUntouched ==
    /\ dirExists = old.dirExists
    /\ indexFile = old.indexFile
    /\ metaFile = old.metaFile

\* the two files are those the run under way has to write
NewArtifacts ==
    /\ indexFile = [k |-> "index", vecs |-> index, recs |-> << >>]
    /\ metaFile = [k |-> "file", vecs |-> << >>, recs |-> RecordsOf(snippets)]

\* C1: when build_index has returned, the metadata file holds as many
\* records as the index file holds vectors, the i-th vector is the embedding
\* of the i-th text added and the i-th record carries that text, and every
\* record is one of this run (none of an earlier build remains).
C1_OrdinalAlignment ==
    pc = "returned" =>
        /\ indexFile.k = "index" /\ metaFile.k = "file"
        /\ Len(metaFile.recs) = Len(indexFile.vecs)
        /\ Len(indexFile.vecs) = Len(added)
        /\ \A i \in 1..Len(added) :
             /\ indexFile.vecs[i] = Embed(added[i])
             /\ metaFile.recs[i].text = added[i]
             /\ metaFile.recs[i].id >= first_id
             /\ metaFile.recs[i] = RecordOf(snippets[i])

\* C1 witness: a second build has returned, of two courses and of several
\* chunks of one field, into a directory that held an earlier build with a
\* different number of records.
C1_Witness ==
    /\ pc = "returned"
    /\ old.pc = "returned"
    /\ ncourses = 2
    /\ Len(metaFile.recs) >= 3
    /\ Len(old.metaFile.recs) # Len(metaFile.recs)
    /\ \E i \in 1..(Len(snippets) - 1) :
          /\ snippets[i].metadata.field = snippets[i + 1].metadata.field
          /\ snippets[i].metadata.articleId = snippets[i + 1].metadata.articleId
          /\ snippets[i].text # snippets[i + 1].text

\* C2: after a build run into a directory that held the index and metadata
\* of an earlier build that returned, however the run ended, the directory
\* holds the index and metadata of the old build or those of the new one.
C2_AllOrNothing ==
    (/\ pc \in {"returned", "raised"}
     /\ old.pc = "returned") =>
        \/ (indexFile = old.indexFile /\ metaFile = old.metaFile)
        \/ NewArtifacts

\* C3: a build whose course list is not empty and whose courses have only
\* empty normalized fields ends with the "no content" ValueError and the
\* directory untouched.
C3_EmptyCorpusNoContent ==
    (/\ pc \in {"returned", "raised"}
     /\ data_cursos = "list"
     /\ ncourses >= 1
     /\ all_empty) =>
        /\ pc = "raised"
        /\ err = "ValueError: no content"
        /\ DirUntouched

\* C4: a build whose JSON object has no "cursos" key or an empty "cursos"
\* array ends with the ValueError of line 129 and the directory, index file
\* and metadata file as they were.
C4_NoCursosFatal ==
    (pc # "idle" /\ data_cursos \in {"absent", "empty"}) =>
        /\ pc = "raised"
        /\ err = "ValueError: no cursos"
        /\ snippets = << >>
        /\ DirUntouched

\* C4 witness: such a build has ended, on a directory that holds the
\* artifacts of an earlier build.
C4_Witness ==
    /\ pc = "raised"
    /\ data_cursos = "empty"
    /\ old.pc = "returned"
    /\ indexFile.k = "index"
    /\ Len(metaFile.recs) >= 2

\* the ordinals of the records a query returned, in order
ReturnedOrdinals == [j \in 1..Len(q.results) |-> q.results[j].idx]

\* C5: a query_index call on a directory that holds both files, with top_k
\* above the number n >= 1 of vectors in the index file, returns n records,
\* one of each ordinal 0..n-1, and raises nothing.
C5_AllVectorsWhenKExceeds ==
    (/\ q.state # "none"
     /\ indexFile.k = "index"
     /\ metaFile.k = "file"
     /\ Len(indexFile.vecs) >= 1
     /\ q_k > Len(indexFile.vecs)) =>
        /\ q.state = "returned"
        /\ Len(q.results) = Len(indexFile.vecs)
        /\ \A o \in 0..(Len(indexFile.vecs) - 1) :
              Cardinality({j \in 1..Len(q.results) : q.results[j].idx = o}) = 1

\* the score of the vector at ordinal o (0-based) for the query asked
ScoreOf(o) == InnerProduct(Embed(q_query), indexFile.vecs[o + 1])

\* C6: the records a query_index call returns are the metadata records at
\* the ordinals the search gave, each with that ordinal's score added; they
\* come in non-increasing score order and are those of the min(k, n) best
\* ordinals of the n vectors in the index file.  Stated for the calls whose
\* search ran (a k of 1 or more at line 215).
C6_RankedRehydration ==
    (q.state = "returned" /\ Len(q.hits) >= 1) =>
        LET n == Len(indexFile.vecs)
            r == q.results
        IN  /\ Len(r) = Min(q_k, n)
            /\ \A j \in 1..Len(r) :
                 /\ r[j].idx >= 0 /\ r[j].idx < n
                 /\ r[j].idx < Len(metaFile.recs)
                 /\ r[j].rec = [score |-> ScoreOf(r[j].idx)] @@ metaFile.recs[r[j].idx + 1]
                 /\ r[j].idx = q.hits[j].idx
            /\ \A j \in 1..(Len(r) - 1) : r[j].rec.score >= r[j + 1].rec.score
            /\ \A a, b \in 1..Len(r) : a # b => r[a].idx # r[b].idx
            /\ \A o \in 0..(n - 1) :
                 (\A j \in 1..Len(r) : r[j].idx # o) =>
                     \A j \in 1..Len(r) : ScoreOf(o) <= r[j].rec.score

\* the metadata file holds one record per vector of the index file
SameLength ==
    /\ indexFile.k = "index" /\ metaFile.k = "file"
    /\ Len(metaFile.recs) = Len(indexFile.vecs)

\* C5 and C6 hold of every call on a directory whose two files have the
\* same length; they fail only on what a build that raised while
\* persisting left behind (C2).
C5_C6_WhenSameLength ==
    (q.state # "none" /\ SameLength) =>
        /\ C5_AllVectorsWhenKExceeds
        /\ C6_RankedRehydration
        /\ q.state = "returned" => Len(q.results) = Min(q_k, Len(indexFile.vecs))

\* no record of the metadata file has a score
NoScorePersisted ==
    \A i \in 1..Len(metaFile.recs) : "score" \notin DOMAIN metaFile.recs[i]

\* a step is a query_index call: build_index stays at rest and a query
\* outcome appears
IsQueryStep == pc' = pc /\ q = NoQuery /\ q' # NoQuery

\* C7: a query_index call leaves the directory, the index file and the
\* metadata file as they were, whatever the query and k; the records it
\* returns carry a score and no record of the metadata file ever does.
C7_QueryReadOnly ==
    /\ [][IsQueryStep =>
            /\ UNCHANGED <<dirExists, indexFile, metaFile>>
            /\ \A j \in 1..Len(q'.results) : "score" \in DOMAIN q'.results[j].rec]_vars
    /\ []NoScorePersisted

\* C7 witness: a query has returned two scored records from an index built
\* twice.
C7_Witness ==
    /\ q.state = "returned"
    /\ Len(q.results) = 2
    /\ builds = 2
    /\ pc = "returned"
    /\ \A j \in 1..2 : "score" \in DOMAIN q.results[j].rec
    /\ NoScorePersisted

\* a missing or null value read as the empty string
EmptyIfMissing(v) == IF v.k = "str" THEN v.s ELSE << >>

\* the snippets C8 promises for a course: every absent or null key read as
\* empty, one snippet per chunk of each field that is not empty
PromisedSnippets(c, campo, first) ==
    LET title == IF EmptyIfMissing(c.title) # << >> THEN c.title.s
                 ELSE IF c.toDisplay.k = "obj" THEN EmptyIfMissing(c.toDisplay.title)
                 ELSE << >>
        tipo == IF c.toDisplay.k = "obj" THEN EmptyIfMissing(c.toDisplay.tipoName)
                ELSE << >>
        meta(name) == [id |-> 0,
                       articleId |-> EmptyIfMissing(c.articleId),
                       nomeCurso |-> title,
                       campo |-> IF EmptyIfMissing(campo) # << >> THEN campo.s ELSE tipo,
                       field |-> name]
        of(name, v) == LET chunks == simple_chunk(strip_html(Str(EmptyIfMissing(v))),
                                                  ScaledMaxChars, ScaledOverlap)
                       IN  [i \in 1..Len(chunks) |-> [text |-> chunks[i], metadata |-> meta(name)]]
    IN  WithIds(of("objetivo", c.objetivoComercial) \o of("metodologia", c.comoVouAprender)
                \o of("requisitos", c.possoFazerEsseCurso) \o of("conteudo", c.oqueVouAprender),
                first)

\* C8: the loop body takes every course, whichever of its keys are absent
\* or null, without raising: it reads those keys as empty, appends nothing
\* for a field that is empty and one snippet per chunk of every other field.
C8_MissingFieldsTolerated ==
    course # << >> =>
        /\ pc = "courses"
        /\ err = ""
        /\ SubSeq(snippets, course_first + 1, Len(snippets))
             = PromisedSnippets(course[1], campo_override,
                                uuid_next - (Len(snippets) - course_first))


\* the index file or the metadata file is not in the directory
ArtifactMissing == indexFile.k = "none" \/ metaFile.k = "none"

NonSpace(s) == SelectSeq(s, LAMBDA c : ~IsSpace(c))

RECURSIVE Deduplicated(_, _, _)
\* The chunks from the j-th on, concatenated, leaving out of each chunk the
\* characters at positions below hi (those an earlier chunk already gave).
Deduplicated(chunks, j, hi) ==
    IF j > Len(chunks) THEN << >>
    ELSE LET c == chunks[j]
             stop == c.off + Len(c.text)
         IN  IF stop <= hi THEN Deduplicated(chunks, j + 1, hi)
             ELSE Slice(c.text, Max(hi - c.off, 0), Len(c.text))
                  \o Deduplicated(chunks, j + 1, stop)

\* C9: when simple_chunk returns, its chunks are spans of the trimmed text
\* in order of increasing start, each window starts at or before the cut of
\* the window before it, the first chunk starts at position 0 and the last
\* ends at the end of the text, every non-whitespace character of the text
\* lies in some chunk, and the chunks concatenated with the overlaps left out
\* give the text's non-whitespace content.
C9_ChunksCoverText ==
    (sc_pc = "done" /\ sc_text # << >>) =>
        LET n == Len(sc_chunks)
            m == Len(sc_spans)
        IN  /\ n >= 1 /\ m >= 1
            /\ \A j \in 1..n :
                 /\ sc_chunks[j].text # << >>
                 /\ sc_chunks[j].off >= 0
                 /\ sc_chunks[j].off + Len(sc_chunks[j].text) <= Len(sc_text)
                 /\ sc_chunks[j].text
                      = Slice(sc_text, sc_chunks[j].off,
                              sc_chunks[j].off + Len(sc_chunks[j].text))
            /\ \A j \in 1..(n - 1) : sc_chunks[j].off <= sc_chunks[j + 1].off
            /\ \A i \in 1..(m - 1) :
                 /\ sc_spans[i].start < sc_spans[i + 1].start
                 /\ sc_spans[i + 1].start <= sc_spans[i].cut
            /\ sc_spans[1].start = 0
            /\ sc_spans[m].cut = Len(sc_text)
            /\ sc_chunks[1].off = 0
            /\ sc_chunks[n].off + Len(sc_chunks[n].text) = Len(sc_text)
            /\ \A p \in 0..(Len(sc_text) - 1) :
                 ~IsSpace(At(sc_text, p)) =>
                     \E j \in 1..n :
                        /\ sc_chunks[j].off <= p
                        /\ p < sc_chunks[j].off + Len(sc_chunks[j].text)
                        /\ At(sc_chunks[j].text, p - sc_chunks[j].off) = At(sc_text, p)
            /\ NonSpace(Deduplicated(sc_chunks, 1, 0)) = NonSpace(sc_text)

\* C9 witness: a call that went through the loop, cut one window on a
\* sentence boundary, overlapped two windows and returned three chunks or more.
C9_Witness ==
    /\ sc_pc = "done"
    /\ Len(sc_chunks) >= 3
    /\ sc_overlap >= 1
    /\ \E i \in 1..Len(sc_spans) :
         /\ sc_spans[i].cut < Len(sc_text)
         /\ sc_spans[i].cut < sc_spans[i].start + sc_max
    /\ \E i \in 1..(Len(sc_spans) - 1) : sc_spans[i + 1].start < sc_spans[i].cut

\* the characters two windows, or two chunks, [s1, e1) and [s2, e2) share
Shared(s1, e1, s2, e2) == Max(0, Min(e1, e2) - Max(s1, s2))

\* every window starts after the one before it and shares at most overlap
\* characters with it, and so do the chunks cut from them
SpansAdvance ==
    /\ \A i \in 1..(Len(sc_spans) - 1) :
          /\ sc_spans[i + 1].start > sc_spans[i].start
          /\ Shared(sc_spans[i].start, sc_spans[i].cut,
                    sc_spans[i + 1].start, sc_spans[i + 1].cut) <= sc_overlap
    /\ \A j \in 1..(Len(sc_chunks) - 1) :
          Shared(sc_chunks[j].off, sc_chunks[j].off + Len(sc_chunks[j].text),
                 sc_chunks[j + 1].off, sc_chunks[j + 1].off + Len(sc_chunks[j + 1].text))
             <= sc_overlap

\* C16: every iteration of the loop of simple_chunk moves start forward,
\* whatever max_chars >= 1 and overlap >= 0 (overlap >= max_chars included),
\* so the loop makes at most len(text) iterations and the call returns; two
\* consecutive spans share at most overlap characters.
C16_LoopAdvances ==
    /\ [][(sc_pc = "loop" /\ sc_spans' # sc_spans) =>
            /\ sc_start' > sc_start
            /\ sc_start' >= sc_spans'[Len(sc_spans')].cut - sc_overlap]_vars
    /\ [](SpansAdvance /\ Len(sc_spans) <= Len(sc_text))
    /\ <>(sc_pc = "done")

\* C16 witness: a call with overlap >= max_chars has returned after three
\* iterations or more, two of its windows sharing characters.
C16_Witness ==
    /\ sc_pc = "done"
    /\ sc_overlap >= sc_max
    /\ Len(sc_spans) >= 3
    /\ \E i \in 1..(Len(sc_spans) - 1) :
          Shared(sc_spans[i].start, sc_spans[i].cut,
                 sc_spans[i + 1].start, sc_spans[i + 1].cut) >= 1

\* the position after the last character of the j-th chunk
ChunkEnd(j) == sc_chunks[j].off + Len(sc_chunks[j].text)

\* C18: when simple_chunk has returned for a text longer than max_chars,
\* every chunk after the first reaches beyond the chunk before it: no chunk
\* follows a chunk that ends at the end of the text, and no chunk lies
\* wholly inside the chunk before it.
C18_NoChunkInsidePrevious ==
    (sc_pc = "done" /\ Len(sc_text) > sc_max) =>
        \A j \in 1..(Len(sc_chunks) - 1) :
           /\ ChunkEnd(j) < Len(sc_text)
           /\ ChunkEnd(j + 1) > ChunkEnd(j)
           /\ ~(sc_chunks[j].off <= sc_chunks[j + 1].off /\ ChunkEnd(j + 1) <= ChunkEnd(j))

(***************************************************************************)
(* Claims about chunk_text_range and bullets_from_text (SpecRange).        *)
(***************************************************************************)
RECURSIVE Concat(_)
\* the texts of a list, one after the other
Concat(parts) == IF parts = << >> THEN << >> ELSE Head(parts) \o Concat(Tail(parts))

\* the bullets without their "- " prefix
Unbulleted(bullets) == [i \in 1..Len(bullets) |-> Slice(bullets[i], 2, Len(bullets[i]))]

\* C10: the non-whitespace characters of the chunks chunk_text_range
\* returns, and of the bullets bullets_from_text returns with the "- " prefix
\* taken off, concatenated in order, are the non-whitespace characters of the
\* input text in order.
C10_ContentPreserved ==
    /\ rt_chunks # << >> => NonSpace(Concat(rt_chunks[1])) = NonSpace(rt_text)
    /\ rt_bullets # << >> =>
          /\ \A i \in 1..Len(rt_bullets[1]) : SubSeq(rt_bullets[1][i], 1, 2) = <<"-", " ">>
          /\ NonSpace(Concat(Unbulleted(rt_bullets[1]))) = NonSpace(rt_text)

\* C10 witness: both functions have run on a text of two sentences or more;
\* chunk_text_range merged the remainder into the chunk before it and
\* hard-split the result, and bullets_from_text word-wrapped a sentence
\* longer than max_len into several pieces.
C10_Witness ==
    /\ rt_chunks # << >> /\ rt_bullets # << >>
    /\ Len(split_into_sentences(rt_text)) >= 2
    /\ LET g == GroupSentences(split_into_sentences(rt_text), << >>, << >>, rt_max)
           closed == CloseRemainder(g.chunks, g.current, rt_min, rt_max)
       IN  /\ Len(closed) = Len(g.chunks)
           /\ \E i \in 1..Len(closed) : Len(closed[i]) > rt_max
    /\ Len(rt_chunks[1]) >= 2
    /\ \E i \in 1..Len(split_into_sentences(rt_text)) :
          LET sent == collapse_whitespace(split_into_sentences(rt_text)[i])
          IN  Len(sent) > rt_max /\ Len(chunk_to_range(sent, rt_min, rt_max)) >= 2

\* no word of the text is longer than n
WordsWithin(text, n) == \A i \in 1..Len(Words(text)) : Len(Words(text)[i]) <= n

\* C12: for a text none of whose words is longer than max_len, no bullet
\* bullets_from_text returns is, without its "- " prefix, longer than
\* max_len.
C12_BulletsWithinMax ==
    (rt_bullets # << >> /\ WordsWithin(rt_text, rt_max)) =>
        \A i \in 1..Len(rt_bullets[1]) : Len(Unbulleted(rt_bullets[1])[i]) <= rt_max

\* the bullets returned, without their prefix
BulletTexts == Unbulleted(rt_bullets[1])

Grouped == GroupSentences(split_into_sentences(rt_text), << >>, << >>, rt_max)

\* the trailing group, joined
Remainder == Join(Grouped.current)

\* the trailing group is shorter than min_chars, a chunk precedes it and the
\* two joined by a space are at most 2 * max_chars long
MergeCase ==
    /\ Grouped.current # << >> /\ Grouped.chunks # << >>
    /\ Len(Remainder) < rt_min
    /\ Len(Grouped.chunks[Len(Grouped.chunks)]) + 1 + Len(Remainder) <= 2 * rt_max

\* C17: when chunk_text_range has returned for a text with a trailing
\* group, in the merge case the list returned ends with the previous chunk
\* joined with the remainder by a space, as one chunk; in every other case
\* it ends with the remainder as a chunk of its own (a remainder longer than
\* max_chars, which the hard split cuts, left aside).
C17_RemainderMergedOrAlone ==
    (rt_chunks # << >> /\ Grouped.current # << >>) =>
        LET returned == rt_chunks[1]
            prev == Grouped.chunks[Len(Grouped.chunks)]
        IN  IF MergeCase
            THEN /\ returned # << >>
                 /\ returned[Len(returned)] = prev \o <<" ">> \o Remainder
            ELSE Len(Remainder) <= rt_max =>
                    /\ returned # << >>
                    /\ returned[Len(returned)] = Remainder
                    /\ Len(returned) >= Len(Grouped.chunks) + 1

\* What holds of the merge case instead: the merged chunk is longer than
\* max_chars and the list returned ends with its hard-split pieces; in the
\* other cases the remainder, when it fits max_chars, is the last chunk.
C17_MergedThenHardSplit ==
    (rt_chunks # << >> /\ Grouped.current # << >>) =>
        LET returned == rt_chunks[1]
            merged == Grouped.chunks[Len(Grouped.chunks)] \o <<" ">> \o Remainder
            pieces == StripAll(HardSplit(merged, 0, rt_max))
        IN  IF MergeCase
            THEN /\ Len(merged) > rt_max
                 /\ Len(returned) >= Len(pieces)
                 /\ SubSeq(returned, Len(returned) - Len(pieces) + 1, Len(returned)) = pieces
            ELSE Len(Remainder) <= rt_max =>
                    /\ returned # << >>
                    /\ returned[Len(returned)] = Remainder

(***************************************************************************)
(* Claims about the chunk lengths of both chunkers (SpecLimit).            *)
(***************************************************************************)
\* the chunks before the final pass of chunk_text_range on the text: the
\* closed groups, the remainder merged or appended
ClosedChunks ==
    LET g == GroupSentences(split_into_sentences(rt_text), << >>, << >>, rt_max)
    IN  CloseRemainder(g.chunks, g.current, rt_min, rt_max)

\* the remainder of the text was merged into the chunk before it
RemainderMerged ==
    LET g == GroupSentences(split_into_sentences(rt_text), << >>, << >>, rt_max)
    IN  /\ g.current # << >> /\ g.chunks # << >>
        /\ Len(ClosedChunks) = Len(g.chunks)

\* C11: every chunk chunk_text_range returns and every chunk simple_chunk
\* has appended is non-empty and at most max_chars characters long.
C11_ChunksWithinMax ==
    /\ rt_chunks # << >> =>
          \A i \in 1..Len(rt_chunks[1]) :
             rt_chunks[1][i] # << >> /\ Len(rt_chunks[1][i]) <= rt_max
    /\ \A j \in 1..Len(sc_chunks) :
          sc_chunks[j].text # << >> /\ Len(sc_chunks[j].text) <= sc_max

\* C11 witness: both functions have returned; the text has a sentence longer
\* than max_chars, its remainder was merged into the chunk before it and the
\* merged chunk, longer than max_chars, was hard-split; simple_chunk went
\* through its loop and returned two chunks or more.
C11_Witness ==
    /\ rt_chunks # << >> /\ sc_pc = "done"
    /\ \E i \in 1..Len(split_into_sentences(rt_text)) :
          Len(split_into_sentences(rt_text)[i]) > rt_max
    /\ RemainderMerged
    /\ Len(ClosedChunks[Len(ClosedChunks)]) > rt_max
    /\ Len(rt_chunks[1]) >= 2
    /\ Len(sc_spans) >= 2 /\ Len(sc_chunks) >= 2

(***************************************************************************)
(* Claims about split_oque_vou_aprender_sections (SpecSections).           *)
(***************************************************************************)
\* the first line of the block a chunk came from
HeaderOf(chunk) == Head(BlockLines(so_semesters[chunk.block]))

\* the chunks block b gave
ChunksOfBlock(b) == SelectSeq(so_chunks, LAMBDA c : c.block = b)

====
